---- MODULE Spec2Model ----
(***************************************************************************)
(* Model of processdata/plots.py: the four chart functions total_growth,  *)
(* daily_growth, world_map and usa_map, the data provider (getdata) they  *)
(* read their tables from, and the client-side controls the figures       *)
(* configure (the log/linear dropdown, the legend, the range selector).   *)
(*                                                                         *)
(* An invocation is a thread of the host web framework running one chart  *)
(* function.  A table the provider returns is an object: heap[<<t, k>>]   *)
(* is the object of kind k the provider built for thread t, and df[t][k]  *)
(* is the reference thread t holds, which may name another thread's       *)
(* object when the provider hands out a table it kept.                    *)
(***************************************************************************)
EXTENDS Integers, Sequences, FiniteSets, TLC

\* ---------------------------------------------------------------- bounds
\* Most rows of a time-series, geo-point or county table.
MaxRows == 2
\* Largest count in a table cell.
MaxVal == 1

\* The host framework's threads, one invocation each.
Threads == {"t1", "t2"}
\* The thread of the single-invocation specifications.
Main == "t1"

\* -------------------------------------------------------------- utilities
Range(s) == {s[i] : i \in DOMAIN s}

NonDecreasing(s) == \A i \in DOMAIN s : \A j \in DOMAIN s : i <= j => s[i] <= s[j]

\* ----------------------------------------------------------------- state
VARIABLES
    upstream,     \* the data the provider reads: one table per kind
    colorStopOk,  \* whether the colour ramp's last stop is a colour (see usa_map)
    heap,         \* the table objects the provider has returned
    pc,           \* each thread's position in its chart function
    fn,           \* the chart function each thread runs
    df,           \* each thread's references to the tables it fetched
    loc,          \* each thread's other locals
    fig,          \* each thread's figure
    ret,          \* what each thread's call returned
    err,          \* the error each thread's call raised
    page,         \* the figure a browser shows after loading a returned div
    lastButton    \* the control last used on the page

vars == <<upstream, colorStopOk, heap, pc, fn, df, loc, fig, ret, err, page, lastButton>>

\* ------------------------------------------------------ the data provider
\* The kinds of table, one per provider operation.
Kinds == {"growth", "cases", "deaths", "report", "counties"}

Absent == [live |-> FALSE]

NoRef == <<"none", "none">>

\* TimeSeriesTable (getdata.realtime_growth): rows indexed by day, with any of
\* the three cumulative columns; a column is non-decreasing.
GrowthColumns == {"Confirmed", "Recovered", "Deaths"}

TimeSeriesTables ==
    UNION {
      UNION { {[index |-> [i \in 1..n |-> i], cols |-> c] :
                 c \in {f \in [cs -> [1..n -> 0..MaxVal]] : \A k \in cs : NonDecreasing(f[k])}}
              : cs \in SUBSET GrowthColumns }
      : n \in 0..MaxRows }

\* One table that has all three columns, for the specifications that are not
\* about total_growth.
DefaultGrowth ==
    [index |-> <<1>>, cols |-> [k \in GrowthColumns |-> <<0>>]]

\* DailyTable (getdata.daily_confirmed, getdata.daily_deaths): one row per
\* day, a date column, the World column and the per-country columns (here
\* one, US).  A World value may be negative.
DailyTableOf(first, n, world) ==
    [cols |-> [date |-> [i \in 1..n |-> first + i - 1],
               World |-> world,
               US |-> [i \in 1..n |-> 0]]]

\* First day of the upstream series, counted from 2019-01-01 (day 0).
FirstDay == 386

SmallDailyPairs ==
    UNION { {[cases |-> DailyTableOf(FirstDay, n, c), deaths |-> DailyTableOf(FirstDay, n, d)] :
               c \in [1..n -> (0 - 1)..MaxVal], d \in [1..n -> (0 - 1)..MaxVal]}
            : n \in 0..MaxRows }

\* Long daily series, for the range selector: MinSpan..MaxSpan days after
\* the first, with World values that differ between the two tables.
MinSpan == 60

MaxSpan == 344

LongDailyPairs ==
    {[cases |-> DailyTableOf(FirstDay, n, [i \in 1..n |-> (i % 3) - 1]),
      deaths |-> DailyTableOf(FirstDay, n, [i \in 1..n |-> i % 2])] :
       n \in (MinSpan + 1)..(MaxSpan + 1)}

DefaultDailyPair ==
    [cases |-> DailyTableOf(FirstDay, 1, <<1>>), deaths |-> DailyTableOf(FirstDay, 1, <<0>>)]

\* GeoPointTable (getdata.daily_report): one row per country or region.
GeoRow(i, lat, confirmed) ==
    [Lat |-> lat, Long_ |-> i, Confirmed |-> confirmed,
     Country_Region |-> i, Combined_Key |-> i]

GeoPointTables ==
    UNION { {[i \in 1..n |-> GeoRow(i, lat[i], c[i])] :
               lat \in [1..n -> (0 - 1)..1], c \in [1..n -> 0..MaxVal]}
            : n \in 0..MaxRows }

DefaultReport == <<GeoRow(1, 0, 1)>>

\* CountyTable (getdata.usa_counties): rows labelled by position, here a
\* window of the table around the label usa_map drops.  FIPS codes are
\* distinct.
AnomalousLabel == 2311

CountyRow(label, cpc) == [label |-> label, fips |-> 10 * label + 1, cpc |-> cpc]

CountyTables ==
    UNION { {[i \in 1..n |-> CountyRow(lo + i - 1, c[i])] : c \in [1..n -> 0..MaxVal]}
            : <<lo, n>> \in {w \in ((AnomalousLabel - 1)..(AnomalousLabel + 1)) \X (0..MaxRows) :
                               /\ w[1] + w[2] - 1 <= AnomalousLabel + 1
                               /\ (w[2] = 0 => w[1] = AnomalousLabel)} }

DefaultCounties == <<CountyRow(AnomalousLabel, 1)>>

\* CountyBoundaries: the FIPS codes the fetched polygon collection has.
Boundaries ==
    [type |-> "FeatureCollection",
     ids |-> {CountyRow(l, 0).fips : l \in (AnomalousLabel - 1)..(AnomalousLabel + 1)}]

Upstream(growth, daily, report, counties) ==
    [growth |-> growth, cases |-> daily.cases, deaths |-> daily.deaths,
     report |-> report, counties |-> counties, boundaries |-> Boundaries]

\* A provider operation called by thread t: it builds a new table object from
\* the upstream data, or hands out an object of that kind it built before.
ProviderChoices(t, k) ==
    {<<t, k>>} \cup {<<u, k>> : u \in {v \in Threads : heap[<<v, k>>].live}}

Fetch(t, k, r) ==
    /\ heap' = IF r = <<t, k>>
                 THEN [heap EXCEPT ![r] = [live |-> TRUE, orig |-> upstream[k], cur |-> upstream[k]]]
                 ELSE heap
    /\ df' = [df EXCEPT ![t][k] = r]

\* The table thread t's reference of kind k names, as it is now.
Table(t, k) == heap[df[t][k]].cur

\* ---------------------------------------------------------- call and return
NoneValue == [kind |-> "None"]

NoError == [type |-> "none"]

NoFig == [data |-> <<>>, layout |-> [height |-> 0]]

Goto(t, label) == pc' = [pc EXCEPT ![t] = label]

Raise(t, e) ==
    /\ pc' = [pc EXCEPT ![t] = "raised"]
    /\ err' = [err EXCEPT ![t] = e]

\* plotly.offline.plot(fig, output_type='div', ...): the div embeds the
\* figure's data and layout with the plot configuration.
plot(f, include_plotlyjs) ==
    [kind |-> "div", data |-> f.data, layout |-> f.layout,
     config |-> [displayModeBar |-> FALSE], include_plotlyjs |-> include_plotlyjs]

EntryLabel(f) ==
    CASE f = "total_growth" -> "tg_22"
      [] f = "daily_growth" -> "dg_77"
      [] f = "world_map" -> "wm_105"
      [] f = "usa_map" -> "um_126"

\* The host framework calls chart function f on thread t.
Call(t, f) ==
    /\ pc[t] = "idle"
    /\ fn' = [fn EXCEPT ![t] = f]
    /\ Goto(t, EntryLabel(f))
    /\ UNCHANGED <<upstream, colorStopOk, heap, df, loc, fig, ret, err, page, lastButton>>

\* ------------------------------------------------------------ total_growth
\* pd.to_datetime(df.index): a day label becomes the timestamp of its midnight,
\* counted in half days.
to_datetime(index) == [i \in DOMAIN index |-> 2 * index[i]]

\* The dropdown with the two buttons' axis types exchanged.
updatemenus_swapped ==
    << [type |-> "dropdown",
        buttons |-> << [args |-> [path |-> <<"yaxis", "type">>, value |-> "linear"],
                        label |-> "Logarithmic", method |-> "relayout"],
                       [args |-> [path |-> <<"yaxis", "type">>, value |-> "log"],
                        label |-> "Linear", method |-> "relayout"] >>] >>

updatemenus_total_growth ==
    << [type |-> "dropdown",
        buttons |-> << [args |-> [path |-> <<"yaxis", "type">>, value |-> "log"],
                        label |-> "Logarithmic", method |-> "relayout"],
                       [args |-> [path |-> <<"yaxis", "type">>, value |-> "linear"],
                        label |-> "Linear", method |-> "relayout"] >>] >>

Layout_total_growth ==
    [paper_bgcolor |-> "rgba(0,0,0,0)", plot_bgcolor |-> "rgba(0,0,0,0)",
     yaxis |-> [type |-> "log"], xaxis |-> [showgrid |-> FALSE],
     template |-> "plotly_dark", showlegend |-> FALSE, height |-> 310,
     updatemenus |-> updatemenus_total_growth]

Scatter(x, y, name) ==
    [type |-> "scatter", x |-> x, y |-> y, name |-> name, mode |-> "lines", visible |-> "true"]

\* The first column of the three that the table lacks: df.<column> raises
\* AttributeError for it.
FirstMissing(table) ==
    IF "Confirmed" \notin DOMAIN table.cols THEN "Confirmed"
    ELSE IF "Recovered" \notin DOMAIN table.cols THEN "Recovered"
    ELSE IF "Deaths" \notin DOMAIN table.cols THEN "Deaths"
    ELSE "none"

\* The traces added in the order they are built: Confirmed, Recovered, Deaths.
total_growth_traces_reordered(table, dates) ==
    IF FirstMissing(table) # "none"
    THEN [raised |-> TRUE, error |-> [type |-> "AttributeError", arg |-> FirstMissing(table)]]
    ELSE [raised |-> FALSE,
          traces |-> << Scatter(dates, table.cols.Confirmed, "Confirmed"),
                        Scatter(dates, table.cols.Recovered, "Recovered"),
                        Scatter(dates, table.cols.Deaths, "Deaths") >>]

\* The traces of the columns the table has, a missing column left out.
total_growth_traces_lenient(table, dates) ==
    LET have == SelectSeq(<<"Confirmed", "Deaths", "Recovered">>,
                          LAMBDA c : c \in DOMAIN table.cols)
    IN  [raised |-> FALSE,
         traces |-> [i \in DOMAIN have |-> Scatter(dates, table.cols[have[i]], have[i])]]

\* Lines 60-64: the three traces, built in the order Confirmed, Recovered,
\* Deaths and added in the order Confirmed, Deaths, Recovered.
total_growth_traces(table, dates) ==
    IF FirstMissing(table) # "none"
    THEN [raised |-> TRUE, error |-> [type |-> "AttributeError", arg |-> FirstMissing(table)]]
    ELSE [raised |-> FALSE,
          traces |-> << Scatter(dates, table.cols.Confirmed, "Confirmed"),
                        Scatter(dates, table.cols.Deaths, "Deaths"),
                        Scatter(dates, table.cols.Recovered, "Recovered") >>]

\* Line 22.
tg_fetch(t) ==
    /\ pc[t] = "tg_22"
    /\ \E r \in ProviderChoices(t, "growth") : Fetch(t, "growth", r)
    /\ Goto(t, "tg_23")
    /\ UNCHANGED <<upstream, colorStopOk, fn, loc, fig, ret, err, page, lastButton>>

\* Lines 23-58.
tg_layout(t) ==
    /\ pc[t] = "tg_23"
    /\ loc' = [loc EXCEPT ![t] = [dates |-> to_datetime(Table(t, "growth").index)]]
    /\ fig' = [fig EXCEPT ![t] = [data |-> <<>>, layout |-> Layout_total_growth]]
    /\ Goto(t, "tg_60")
    /\ UNCHANGED <<upstream, colorStopOk, heap, fn, df, ret, err, page, lastButton>>

\* Lines 60-64.
tg_traces(t) ==
    /\ pc[t] = "tg_60"
    /\ LET r == total_growth_traces(Table(t, "growth"), loc[t].dates)
       IN  IF r.raised
           THEN Raise(t, r.error) /\ UNCHANGED fig
           ELSE /\ fig' = [fig EXCEPT ![t].data = fig[t].data \o r.traces]
                /\ Goto(t, "tg_65")
                /\ UNCHANGED err
    /\ UNCHANGED <<upstream, colorStopOk, heap, fn, df, loc, ret, page, lastButton>>

\* Lines 65-67.
tg_plot(t) ==
    /\ pc[t] = "tg_65"
    /\ ret' = [ret EXCEPT ![t] = plot(fig[t], TRUE)]
    /\ Goto(t, "done")
    /\ UNCHANGED <<upstream, colorStopOk, heap, fn, df, loc, fig, err, page, lastButton>>

\* ------------------------------------------------------------ daily_growth
\* frame[['date', 'World']]: a new table of the listed columns; KeyError for
\* a column the table lacks.
SelectColumns(table, names) ==
    IF \E c \in names : c \notin DOMAIN table.cols
    THEN [raised |-> TRUE,
          error |-> [type |-> "KeyError",
                     arg |-> CHOOSE c \in names : c \notin DOMAIN table.cols]]
    ELSE [raised |-> FALSE, frame |-> [cols |-> [c \in names |-> table.cols[c]]]]

Bar(x, y, name, visible) ==
    [type |-> "bar", x |-> x, y |-> y, name |-> name, visible |-> visible]

daily_deaths_trace(daily_deaths) ==
    Bar(daily_deaths.cols.date, daily_deaths.cols.World, "Deaths", "true")

\* The Cases trace without visible='legendonly'.
daily_cases_trace_shown(daily_cases) ==
    Bar(daily_cases.cols.date, daily_cases.cols.World, "Cases", "true")

daily_cases_trace(daily_cases) ==
    Bar(daily_cases.cols.date, daily_cases.cols.World, "Cases", "legendonly")

\* The range selector with count=1 on the first button.
rangeselector_day_for_week ==
    [buttons |-> << [count |-> 1, label |-> "W", step |-> "day", stepmode |-> "backward"],
                    [count |-> 1, label |-> "M", step |-> "month", stepmode |-> "backward"],
                    [count |-> 3, label |-> "3M", step |-> "month", stepmode |-> "backward"],
                    [label |-> "T", step |-> "all"] >>]

\* Lines 84-92.
rangeselector_daily_growth ==
    [buttons |-> << [count |-> 7, label |-> "W", step |-> "day", stepmode |-> "backward"],
                    [count |-> 1, label |-> "M", step |-> "month", stepmode |-> "backward"],
                    [count |-> 3, label |-> "3M", step |-> "month", stepmode |-> "backward"],
                    [label |-> "T", step |-> "all"] >>]

\* Line 79.
Layout_daily_growth ==
    [paper_bgcolor |-> "rgba(0,0,0,0)", plot_bgcolor |-> "rgba(0,0,0,0)",
     legend |-> [x |-> "0.025", y |-> "1"], height |-> 310, barmode |-> "stack"]

\* fig.update_xaxes(...), fig.update_yaxes(...): the layout with the axis'
\* properties set.
update_axis(layout, axis, props) ==
    [k \in DOMAIN layout \cup {axis} |-> IF k = axis THEN props ELSE layout[k]]

\* Line 77.
dg_cases(t) ==
    /\ pc[t] = "dg_77"
    /\ \E r \in ProviderChoices(t, "cases") :
         /\ Fetch(t, "cases", r)
         /\ LET s == SelectColumns(heap'[r].cur, {"date", "World"})
            IN  IF s.raised
                THEN Raise(t, s.error) /\ UNCHANGED loc
                ELSE /\ loc' = [loc EXCEPT ![t] = [daily_cases |-> s.frame]]
                     /\ Goto(t, "dg_78")
                     /\ UNCHANGED err
    /\ UNCHANGED <<upstream, colorStopOk, fn, fig, ret, page, lastButton>>

\* Line 78.
dg_deaths(t) ==
    /\ pc[t] = "dg_78"
    /\ \E r \in ProviderChoices(t, "deaths") :
         /\ Fetch(t, "deaths", r)
         /\ LET s == SelectColumns(heap'[r].cur, {"date", "World"})
            IN  IF s.raised
                THEN Raise(t, s.error) /\ UNCHANGED loc
                ELSE /\ loc' = [loc EXCEPT ![t] = [daily_cases |-> loc[t].daily_cases,
                                                   daily_deaths |-> s.frame]]
                     /\ Goto(t, "dg_79")
                     /\ UNCHANGED err
    /\ UNCHANGED <<upstream, colorStopOk, fn, fig, ret, page, lastButton>>

\* Lines 79-95: the layout, the two traces, the range selector, and the
\* traces added in the order Cases, Deaths.
dg_figure(t) ==
    /\ pc[t] = "dg_79"
    /\ fig' = [fig EXCEPT ![t] =
                 [data |-> << daily_cases_trace(loc[t].daily_cases),
                              daily_deaths_trace(loc[t].daily_deaths) >>,
                  layout |-> update_axis(
                                update_axis(Layout_daily_growth, "xaxis",
                                            [rangeselector |-> rangeselector_daily_growth]),
                                "yaxis", [gridcolor |-> "#fff"])]]
    /\ Goto(t, "dg_96")
    /\ UNCHANGED <<upstream, colorStopOk, heap, fn, df, loc, ret, err, page, lastButton>>

\* Lines 96-98.
dg_plot(t) ==
    /\ pc[t] = "dg_96"
    /\ ret' = [ret EXCEPT ![t] = plot(fig[t], TRUE)]
    /\ Goto(t, "done")
    /\ UNCHANGED <<upstream, colorStopOk, heap, fn, df, loc, fig, err, page, lastButton>>

\* --------------------------------------------------------------- world_map
Column(rows, c) == [i \in DOMAIN rows |-> rows[i][c]]

\* The trace with size taken from the Lat column.
scatter_mapbox_sized_by_lat(rows) ==
    [type |-> "scattermapbox",
     lat |-> Column(rows, "Lat"), lon |-> Column(rows, "Long_"),
     marker |-> [color |-> Column(rows, "Confirmed"), size |-> Column(rows, "Lat"),
                 sizemode |-> "area", coloraxis |-> "coloraxis"],
     hovertext |-> Column(rows, "Country_Region"),
     customdata |-> [i \in DOMAIN rows |-> <<rows[i].Combined_Key, rows[i].Confirmed>>]]

\* Lines 106-115: px.scatter_mapbox with color='Confirmed', size='Confirmed':
\* one trace whose marker colour and marker size arrays are the Confirmed
\* column, row by row.
scatter_mapbox(rows) ==
    [type |-> "scattermapbox",
     lat |-> Column(rows, "Lat"), lon |-> Column(rows, "Long_"),
     marker |-> [color |-> Column(rows, "Confirmed"), size |-> Column(rows, "Confirmed"),
                 sizemode |-> "area", coloraxis |-> "coloraxis"],
     hovertext |-> Column(rows, "Country_Region"),
     customdata |-> [i \in DOMAIN rows |-> <<rows[i].Combined_Key, rows[i].Confirmed>>]]

Layout_world_map ==
    [mapbox |-> [style |-> "carto-positron", zoom |-> 1,
                 center |-> [lat |-> "20.0", lon |-> "-20.0"]],
     height |-> 450, paper_bgcolor |-> "rgba(0,0,0,0)"]

\* Line 105.
wm_fetch(t) ==
    /\ pc[t] = "wm_105"
    /\ \E r \in ProviderChoices(t, "report") : Fetch(t, "report", r)
    /\ Goto(t, "wm_106")
    /\ UNCHANGED <<upstream, colorStopOk, fn, loc, fig, ret, err, page, lastButton>>

\* Lines 106-117.
wm_figure(t) ==
    /\ pc[t] = "wm_106"
    /\ fig' = [fig EXCEPT ![t] = [data |-> <<scatter_mapbox(Table(t, "report"))>>,
                                  layout |-> Layout_world_map]]
    /\ Goto(t, "wm_118")
    /\ UNCHANGED <<upstream, colorStopOk, heap, fn, df, loc, ret, err, page, lastButton>>

\* Lines 118-120.
wm_plot(t) ==
    /\ pc[t] = "wm_118"
    /\ ret' = [ret EXCEPT ![t] = plot(fig[t], FALSE)]
    /\ Goto(t, "done")
    /\ UNCHANGED <<upstream, colorStopOk, heap, fn, df, loc, fig, err, page, lastButton>>

\* ----------------------------------------------------------------- usa_map
Labels(rows) == {rows[i].label : i \in DOMAIN rows}

\* A drop by position: the first row goes, whatever its label.
drop_first_row(rows, labels) ==
    IF \E l \in labels : l \notin Labels(rows)
    THEN [raised |-> TRUE, error |-> [type |-> "KeyError", arg |-> "not found in axis"]]
    ELSE [raised |-> FALSE, frame |-> SubSeq(rows, 2, Len(rows))]

\* DataFrame.drop(labels): KeyError when a label is not in the index;
\* otherwise the rows whose label is not listed, in their order.
drop(rows, labels) ==
    IF \E l \in labels : l \notin Labels(rows)
    THEN [raised |-> TRUE, error |-> [type |-> "KeyError", arg |-> "not found in axis"]]
    ELSE [raised |-> FALSE, frame |-> SelectSeq(rows, LAMBDA r : r.label \notin labels)]

\* Lines 133-140.  The last stop of the colour ramp, [1.0, '...'], is cut off
\* in the source (the string literal does not end), so its value is not
\* known: with a colour there the trace is built, with anything else the
\* colorscale is rejected (ValueError).
Choroplethmapbox(geojson, locations, z, stopOk) ==
    IF ~stopOk
    THEN [raised |-> TRUE, error |-> [type |-> "ValueError", arg |-> "colorscale"]]
    ELSE [raised |-> FALSE,
          trace |-> [type |-> "choroplethmapbox", geojson |-> geojson,
                     locations |-> locations, z |-> z,
                     marker |-> [opacity |-> "0.8", line |-> [width |-> 0]]]]

Layout_usa_map ==
    [mapbox |-> [style |-> "carto-positron", zoom |-> "2.75",
                 center |-> [lat |-> "37.0902", lon |-> "-95.7129"]]]

\* Lines 126-127.
um_urlopen(t) ==
    /\ pc[t] = "um_126"
    /\ loc' = [loc EXCEPT ![t] = [counties |-> upstream.boundaries]]
    /\ Goto(t, "um_129")
    /\ UNCHANGED <<upstream, colorStopOk, heap, fn, df, fig, ret, err, page, lastButton>>

\* Line 129.  loc[t].given keeps the table as the provider handed it over.
um_fetch(t) ==
    /\ pc[t] = "um_129"
    /\ \E r \in ProviderChoices(t, "counties") :
         /\ Fetch(t, "counties", r)
         /\ loc' = [loc EXCEPT ![t] = [counties |-> loc[t].counties, given |-> heap'[r].cur]]
    /\ Goto(t, "um_130")
    /\ UNCHANGED <<upstream, colorStopOk, fn, fig, ret, err, page, lastButton>>

\* Line 130, first half: drop computes the table without the label.
um_drop(t) ==
    /\ pc[t] = "um_130"
    /\ LET d == drop(Table(t, "counties"), {AnomalousLabel})
       IN  IF d.raised
           THEN Raise(t, d.error) /\ UNCHANGED loc
           ELSE /\ loc' = [loc EXCEPT ![t] = [counties |-> loc[t].counties,
                                              given |-> loc[t].given,
                                              dropped |-> d.frame]]
                /\ Goto(t, "um_130_inplace")
                /\ UNCHANGED err
    /\ UNCHANGED <<upstream, colorStopOk, heap, fn, df, fig, ret, page, lastButton>>

\* Line 130, second half: inplace=True puts the result in the table object.
um_inplace(t) ==
    /\ pc[t] = "um_130_inplace"
    /\ heap' = [heap EXCEPT ![df[t].counties].cur = loc[t].dropped]
    /\ Goto(t, "um_132")
    /\ UNCHANGED <<upstream, colorStopOk, fn, df, loc, fig, ret, err, page, lastButton>>

\* Lines 132-141.
um_figure(t) ==
    /\ pc[t] = "um_132"
    /\ LET rows == Table(t, "counties")
           c == Choroplethmapbox(loc[t].counties, Column(rows, "fips"), Column(rows, "cpc"),
                                 colorStopOk)
       IN  IF c.raised
           THEN Raise(t, c.error) /\ UNCHANGED fig
           ELSE /\ fig' = [fig EXCEPT ![t] = [data |-> <<c.trace>>, layout |-> [height |-> 0]]]
                /\ Goto(t, "um_143")
                /\ UNCHANGED err
    /\ UNCHANGED <<upstream, colorStopOk, heap, fn, df, loc, ret, page, lastButton>>

\* Lines 143-150: the layout is set and None is returned; plot is not called.
um_return(t) ==
    /\ pc[t] = "um_143"
    /\ fig' = [fig EXCEPT ![t].layout = Layout_usa_map]
    /\ ret' = [ret EXCEPT ![t] = NoneValue]
    /\ Goto(t, "done")
    /\ UNCHANGED <<upstream, colorStopOk, heap, fn, df, loc, err, page, lastButton>>

\* ------------------------------------------------------------- the browser
NoPage == [src |-> "none"]

\* The browser renders the div thread t's call returned; an x axis starts
\* in autorange.
LoadPage(t) ==
    /\ pc[t] = "done"
    /\ ret[t].kind = "div"
    /\ page = NoPage
    /\ page' = [src |-> t, data |-> ret[t].data, layout |-> ret[t].layout,
                view |-> [autorange |-> TRUE]]
    /\ lastButton' = "none"
    /\ UNCHANGED <<upstream, colorStopOk, heap, pc, fn, df, loc, fig, ret, err>>

\* method='relayout' with args {'yaxis.type': v}: the layout attribute the
\* path names takes the value, and nothing else of the figure changes.
relayout(layout, args) ==
    [layout EXCEPT ![args.path[1]][args.path[2]] = args.value]

\* The user picks button b of the figure's dropdown.
ClickButton(b) ==
    /\ page # NoPage
    /\ "updatemenus" \in DOMAIN page.layout
    /\ \E m \in DOMAIN page.layout.updatemenus :
         \E i \in DOMAIN page.layout.updatemenus[m].buttons :
           LET button == page.layout.updatemenus[m].buttons[i]
           IN  /\ b = button.label
               /\ button.method = "relayout"
               /\ page' = [page EXCEPT !.layout = relayout(page.layout, button.args)]
    /\ lastButton' = b
    /\ UNCHANGED <<upstream, colorStopOk, heap, pc, fn, df, loc, fig, ret, err>>

\* A click on trace i's legend entry switches it between rendered and
\* legend-only.  total_growth's figure shows no legend.
legend_toggle(visible) == IF visible = "true" THEN "legendonly" ELSE "true"

ClickLegend(i) ==
    /\ page # NoPage
    /\ ~("showlegend" \in DOMAIN page.layout /\ ~page.layout.showlegend)
    /\ i \in DOMAIN page.data
    /\ page' = [page EXCEPT !.data[i].visible = legend_toggle(page.data[i].visible)]
    /\ lastButton' = "legend"
    /\ UNCHANGED <<upstream, colorStopOk, heap, pc, fn, df, loc, fig, ret, err>>

\* The calendar of 2019 to 2021, days counted from 2019-01-01 (day 0) and
\* months from January 2019 (month 1).
MonthLengths ==
    << 31, 28, 31, 30, 31, 30, 31, 31, 30, 31, 30, 31,
       31, 29, 31, 30, 31, 30, 31, 31, 30, 31, 30, 31,
       31, 28, 31, 30, 31, 30, 31, 31, 30, 31, 30, 31 >>

RECURSIVE DaysBefore(_)
DaysBefore(m) == IF m <= 1 THEN 0 ELSE DaysBefore(m - 1) + MonthLengths[m - 1]

MonthOf(d) ==
    CHOOSE m \in DOMAIN MonthLengths : DaysBefore(m) <= d /\ d < DaysBefore(m) + MonthLengths[m]

\* Timestamps are counted in half days: 2 * d is the midnight that starts day
\* d.  offset(ts, step, k) is ts moved by k steps: a month step keeps the day
\* of the month and the time of day, and a day of the month the target month
\* lacks runs over into the next month.
offset(ts, step, k) ==
    IF step = "day" THEN ts + 2 * k
    ELSE LET d == ts \div 2
             m == MonthOf(d)
             dom == d - DaysBefore(m)
         IN  2 * (DaysBefore(m + k) + dom) + (ts % 2)

SetMin(S) == CHOOSE v \in S : \A w \in S : v <= w

SetMax(S) == CHOOSE v \in S : \A w \in S : v >= w

\* The rendered traces that have data.
Rendered(data) ==
    {i \in DOMAIN data : data[i].visible = "true" /\ Len(data[i].x) > 0}

\* The autorange of a date axis under daily bars: from half a day before the
\* first rendered bar's midnight to half a day after the last one's.
Autorange(data) ==
    LET days == UNION {Range(data[i].x) : i \in Rendered(data)}
    IN  <<2 * SetMin(days) - 1, 2 * SetMax(days) + 1>>

\* The range the x axis shows.
CurrentRange(p) ==
    IF p.view.autorange THEN Autorange(p.data) ELSE p.view.range

\* A range selector button: step 'all' returns the axis to autorange; a
\* 'backward' button keeps the end of the range shown and starts count steps
\* before it.
select_range(p, button) ==
    IF button.step = "all"
    THEN [autorange |-> TRUE]
    ELSE [autorange |-> FALSE,
          range |-> << offset(CurrentRange(p)[2], button.step, 0 - button.count),
                       CurrentRange(p)[2] >>]

\* The user picks button i of the range selector, with a series rendered.
ClickRange(i) ==
    /\ page # NoPage
    /\ "xaxis" \in DOMAIN page.layout
    /\ "rangeselector" \in DOMAIN page.layout.xaxis
    /\ i \in DOMAIN page.layout.xaxis.rangeselector.buttons
    /\ Rendered(page.data) # {}
    /\ page' = [page EXCEPT !.view = select_range(page, page.layout.xaxis.rangeselector.buttons[i])]
    /\ lastButton' = page.layout.xaxis.rangeselector.buttons[i].label
    /\ UNCHANGED <<upstream, colorStopOk, heap, pc, fn, df, loc, fig, ret, err>>

\* ---------------------------------------------------------- specifications
InitThreads ==
    /\ heap = [o \in Threads \X Kinds |-> Absent]
    /\ pc = [t \in Threads |-> "idle"]
    /\ fn = [t \in Threads |-> "none"]
    /\ df = [t \in Threads |-> [k \in Kinds |-> NoRef]]
    /\ loc = [t \in Threads |-> [dates |-> <<>>]]
    /\ fig = [t \in Threads |-> NoFig]
    /\ ret = [t \in Threads |-> NoneValue]
    /\ err = [t \in Threads |-> NoError]
    /\ page = NoPage
    /\ lastButton = "none"

\* One invocation of total_growth, over every time-series table, and the page
\* it renders.
InitTrend ==
    /\ upstream \in {Upstream(g, DefaultDailyPair, DefaultReport, DefaultCounties) :
                       g \in TimeSeriesTables}
    /\ colorStopOk = TRUE
    /\ InitThreads

NextTrend ==
    \/ Call(Main, "total_growth")
    \/ tg_fetch(Main)
    \/ tg_layout(Main)
    \/ tg_traces(Main)
    \/ tg_plot(Main)
    \/ LoadPage(Main)
    \/ \E b \in {"Logarithmic", "Linear"} : ClickButton(b)

SpecTrend == InitTrend /\ [][NextTrend]_vars

\* One invocation of daily_growth, over every pair of small daily tables, and
\* the legend of the page it renders.
InitDaily ==
    /\ upstream \in {Upstream(DefaultGrowth, d, DefaultReport, DefaultCounties) :
                       d \in SmallDailyPairs}
    /\ colorStopOk = TRUE
    /\ InitThreads

NextDaily ==
    \/ Call(Main, "daily_growth")
    \/ dg_cases(Main)
    \/ dg_deaths(Main)
    \/ dg_figure(Main)
    \/ dg_plot(Main)
    \/ LoadPage(Main)
    \/ \E i \in 1..2 : ClickLegend(i)

SpecDaily == InitDaily /\ [][NextDaily]_vars

\* One invocation of daily_growth, over long daily tables, and the range
\* selector of the page it renders, the legend left as it starts.
InitRange ==
    /\ upstream \in {Upstream(DefaultGrowth, d, DefaultReport, DefaultCounties) :
                       d \in LongDailyPairs}
    /\ colorStopOk = TRUE
    /\ InitThreads

NextRange ==
    \/ Call(Main, "daily_growth")
    \/ dg_cases(Main)
    \/ dg_deaths(Main)
    \/ dg_figure(Main)
    \/ dg_plot(Main)
    \/ LoadPage(Main)
    \/ \E i \in 1..4 : ClickRange(i)

SpecRange == InitRange /\ [][NextRange]_vars

\* One invocation of world_map, over every geo-point table.
InitWorld ==
    /\ upstream \in {Upstream(DefaultGrowth, DefaultDailyPair, r, DefaultCounties) :
                       r \in GeoPointTables}
    /\ colorStopOk = TRUE
    /\ InitThreads

NextWorld ==
    \/ Call(Main, "world_map")
    \/ wm_fetch(Main)
    \/ wm_figure(Main)
    \/ wm_plot(Main)
    \/ LoadPage(Main)

SpecWorld == InitWorld /\ [][NextWorld]_vars

\* Invocations of the four chart functions on the host's threads, in any
\* interleaving, over every county table.
Init ==
    /\ upstream \in {Upstream(DefaultGrowth, DefaultDailyPair, DefaultReport, c) :
                       c \in CountyTables}
    /\ colorStopOk \in BOOLEAN
    /\ InitThreads

Next ==
    \E t \in Threads :
      \/ \E f \in {"total_growth", "daily_growth", "world_map", "usa_map"} : Call(t, f)
      \/ tg_fetch(t)
      \/ tg_layout(t)
      \/ tg_traces(t)
      \/ tg_plot(t)
      \/ dg_cases(t)
      \/ dg_deaths(t)
      \/ dg_figure(t)
      \/ dg_plot(t)
      \/ wm_fetch(t)
      \/ wm_figure(t)
      \/ wm_plot(t)
      \/ um_urlopen(t)
      \/ um_fetch(t)
      \/ um_drop(t)
      \/ um_inplace(t)
      \/ um_figure(t)
      \/ um_return(t)

Spec == Init /\ [][Next]_vars

\* ------------------------------------------------------------------ claims
Finished(t) == pc[t] \in {"done", "raised"}

\* The table object thread t's reference of kind k names, as the provider
\* built it.
Built(t, k) == heap[df[t][k]].orig

\* C1: every call of usa_map that completes without an error returns non-null
\* chart markup.
C1_UsaMapReturnsMarkup ==
    \A t \in Threads :
      (fn[t] = "usa_map" /\ pc[t] = "done") => ret[t].kind = "div"

\* C2: when the county table handed to usa_map has the row labelled 2311, the
\* locations and z values given to the choropleth trace hold no entry of that
\* row and hold the entry of every other row of that table, and nothing else.
C2_AnomalousRowExcluded ==
    \A t \in Threads :
      (/\ fn[t] = "usa_map"
       /\ pc[t] \in {"um_143", "done"}
       /\ AnomalousLabel \in Labels(loc[t].given))
      => LET given == loc[t].given
             trace == fig[t].data[1]
         IN  /\ Len(trace.locations) = Len(trace.z)
             /\ Len(trace.locations) = Len(given) - 1
             /\ \A i \in DOMAIN given :
                  IF given[i].label = AnomalousLabel
                  THEN given[i].fips \notin Range(trace.locations)
                  ELSE \E j \in DOMAIN trace.locations :
                         /\ trace.locations[j] = given[i].fips
                         /\ trace.z[j] = given[i].cpc

C2_Witness ==
    \E t \in Threads :
      /\ fn[t] = "usa_map"
      /\ pc[t] = "done"
      /\ Len(loc[t].given) = 2
      /\ loc[t].given[2].label = AnomalousLabel
      /\ Len(fig[t].data[1].locations) = 1

\* C3: for a table with the three columns, the figure total_growth builds has
\* exactly three series, added in the order Confirmed, Deaths, Recovered, the
\* names being Confirmed, Recovered and Deaths, and each series carries the
\* values of the column it is named after.
C3_ThreeSeriesInOrder ==
    \A t \in Threads :
      (/\ fn[t] = "total_growth"
       /\ Finished(t)
       /\ GrowthColumns \subseteq DOMAIN Built(t, "growth").cols)
      => /\ pc[t] = "done"
         /\ ret[t].kind = "div"
         /\ Len(ret[t].data) = 3
         /\ [i \in 1..3 |-> ret[t].data[i].name] = <<"Confirmed", "Deaths", "Recovered">>
         /\ {ret[t].data[i].name : i \in 1..3} = GrowthColumns
         /\ \A i \in 1..3 : ret[t].data[i].y = Built(t, "growth").cols[ret[t].data[i].name]

C3_Witness ==
    /\ fn[Main] = "total_growth"
    /\ pc[Main] = "done"
    /\ Len(ret[Main].data) = 3
    /\ Built(Main, "growth").cols.Confirmed = <<1, 1>>
    /\ Built(Main, "growth").cols.Recovered = <<0, 1>>
    /\ Built(Main, "growth").cols.Deaths = <<0, 0>>

\* The y-axis mode each control of the dropdown stands for, and the mode
\* before any is used.
ModeAfter(button) == IF button = "Linear" THEN "linear" ELSE "log"

\* C4: the page of total_growth's figure starts with a logarithmic y axis, and
\* after any sequence of Logarithmic / Linear choices the figure is the one
\* returned with the y-axis mode of the last choice: the series are unchanged
\* and nothing but the axis mode depends on the choices made.
C4_ToggleOnlySetsAxisMode ==
    (page # NoPage /\ fn[page.src] = "total_growth")
    => /\ lastButton \in {"none", "Logarithmic", "Linear"}
       /\ ret[page.src].layout.yaxis.type = "log"
       /\ page.data = ret[page.src].data
       /\ \A i \in DOMAIN page.data :
            page.data[i].y = Built(page.src, "growth").cols[page.data[i].name]
       /\ page.layout = [ret[page.src].layout EXCEPT !.yaxis.type = ModeAfter(lastButton)]

C4_Witness ==
    /\ page # NoPage
    /\ fn[page.src] = "total_growth"
    /\ lastButton = "Linear"
    /\ page.layout.yaxis.type = "linear"
    /\ page.data[1].y = <<0, 1>>

TraceNamed(data, name) == data[CHOOSE i \in DOMAIN data : data[i].name = name]

\* C5: the figure daily_growth returns has the Cases series legend-only and
\* the Deaths series rendered, the page shows them so until the legend is
\* used, and after any sequence of legend switches the x and y data of each
\* series are the date and World columns of its table.
C5_LegendLeavesDataAlone ==
    /\ \A t \in Threads :
         (fn[t] = "daily_growth" /\ pc[t] = "done")
         => /\ {ret[t].data[i].name : i \in DOMAIN ret[t].data} = {"Cases", "Deaths"}
            /\ Len(ret[t].data) = 2
            /\ TraceNamed(ret[t].data, "Cases").visible = "legendonly"
            /\ TraceNamed(ret[t].data, "Deaths").visible = "true"
    /\ (page # NoPage /\ fn[page.src] = "daily_growth")
       => /\ lastButton = "none"
             => /\ TraceNamed(page.data, "Cases").visible = "legendonly"
                /\ TraceNamed(page.data, "Deaths").visible = "true"
          /\ TraceNamed(page.data, "Cases").x = Built(page.src, "cases").cols.date
          /\ TraceNamed(page.data, "Cases").y = Built(page.src, "cases").cols.World
          /\ TraceNamed(page.data, "Deaths").x = Built(page.src, "deaths").cols.date
          /\ TraceNamed(page.data, "Deaths").y = Built(page.src, "deaths").cols.World

C5_Witness ==
    /\ page # NoPage
    /\ fn[page.src] = "daily_growth"
    /\ lastButton = "legend"
    /\ TraceNamed(page.data, "Cases").visible = "true"
    /\ TraceNamed(page.data, "Deaths").visible = "legendonly"
    /\ TraceNamed(page.data, "Cases").y = <<1, 0 - 1>>
    /\ TraceNamed(page.data, "Deaths").y = <<0, 1>>

\* More than three months of dates: more than 92 days from the first to the
\* last.
SpansOverThreeMonths(dates) ==
    Len(dates) > 0 /\ SetMax(Range(dates)) - SetMin(Range(dates)) > 92

Preset(button) ==
    IF button.step = "all" THEN <<"all">> ELSE <<button.count, button.step, button.stepmode>>

\* C6: daily_growth configures exactly the four presets 7 days, 1 month,
\* 3 months and all; and on the page of a table spanning more than three
\* months, after a preset is selected the range shown lies within the dates'
\* full range, ends within the last date's day, and spans 7 days for the
\* first preset, one month (28 to 31 days) for the second, three months (89
\* to 92 days) for the third, and every date for the fourth.
C6_RangePresets ==
    /\ \A t \in Threads :
         (fn[t] = "daily_growth" /\ pc[t] = "done")
         => [i \in DOMAIN ret[t].layout.xaxis.rangeselector.buttons |->
               Preset(ret[t].layout.xaxis.rangeselector.buttons[i])]
            = << <<7, "day", "backward">>, <<1, "month", "backward">>,
                 <<3, "month", "backward">>, <<"all">> >>
    /\ (/\ page # NoPage
        /\ fn[page.src] = "daily_growth"
        /\ lastButton # "none"
        /\ SpansOverThreeMonths(Built(page.src, "deaths").cols.date))
       => LET dates == Range(Built(page.src, "deaths").cols.date)
              shown == CurrentRange(page)
              halfDays == shown[2] - shown[1]
              buttons == page.layout.xaxis.rangeselector.buttons
          IN  /\ 2 * SetMax(dates) <= shown[2]
              /\ shown[2] < 2 * (SetMax(dates) + 1)
              /\ 2 * SetMin(dates) - 1 <= shown[1]
              /\ lastButton \in {buttons[i].label : i \in 1..4}
              /\ lastButton = buttons[1].label => halfDays = 2 * 7
              /\ lastButton = buttons[2].label => halfDays \in (2 * 28)..(2 * 31)
              /\ lastButton = buttons[3].label => halfDays \in (2 * 89)..(2 * 92)
              /\ lastButton = buttons[4].label
                   => \A d \in dates : shown[1] <= 2 * d /\ 2 * d <= shown[2]

C6_Witness ==
    /\ page # NoPage
    /\ fn[page.src] = "daily_growth"
    /\ lastButton = "3M"
    /\ SpansOverThreeMonths(Built(page.src, "deaths").cols.date)
    /\ ~page.view.autorange
    /\ page.view.range[2] - page.view.range[1] = 2 * 90

\* C7: in world_map's figure the marker size and the marker colour of a row
\* are non-decreasing in the row's Confirmed value: for rows a and b with
\* Confirmed(a) <= Confirmed(b), size(a) <= size(b) and color(a) <= color(b).
C7_SizeAndColorMonotonic ==
    \A t \in Threads :
      (fn[t] = "world_map" /\ pc[t] = "done")
      => LET rows == Built(t, "report")
             marker == ret[t].data[1].marker
         IN  /\ Len(ret[t].data) = 1
             /\ DOMAIN marker.size = DOMAIN rows
             /\ DOMAIN marker.color = DOMAIN rows
             /\ \A a \in DOMAIN rows : \A b \in DOMAIN rows :
                  rows[a].Confirmed <= rows[b].Confirmed
                  => /\ marker.size[a] <= marker.size[b]
                     /\ marker.color[a] <= marker.color[b]

C7_Witness ==
    /\ fn[Main] = "world_map"
    /\ pc[Main] = "done"
    /\ Len(Built(Main, "report")) = 2
    /\ Built(Main, "report")[1].Confirmed < Built(Main, "report")[2].Confirmed
    /\ Built(Main, "report")[1].Lat > Built(Main, "report")[2].Lat
    /\ ret[Main].data[1].marker.size[1] < ret[Main].data[1].marker.size[2]

\* C8: no chart function changes a table after the provider has returned it:
\* every table object has the rows and columns it was built with.
C8_TablesNeverMutated ==
    \A o \in DOMAIN heap : heap[o].live => heap[o].cur = heap[o].orig

\* What chart function f ends with when it runs alone on the upstream data:
\* the value it returns and the error it raises.
SoloOutcome(f) ==
    CASE f = "total_growth" ->
           LET r == total_growth_traces(upstream.growth, to_datetime(upstream.growth.index))
           IN  IF r.raised THEN [ret |-> NoneValue, err |-> r.error]
               ELSE [ret |-> plot([data |-> r.traces, layout |-> Layout_total_growth], TRUE),
                     err |-> NoError]
      [] f = "daily_growth" ->
           LET c == SelectColumns(upstream.cases, {"date", "World"})
               d == SelectColumns(upstream.deaths, {"date", "World"})
           IN  IF c.raised THEN [ret |-> NoneValue, err |-> c.error]
               ELSE IF d.raised THEN [ret |-> NoneValue, err |-> d.error]
               ELSE [ret |-> plot([data |-> <<daily_cases_trace(c.frame),
                                              daily_deaths_trace(d.frame)>>,
                                   layout |-> update_axis(
                                       update_axis(Layout_daily_growth, "xaxis",
                                                   [rangeselector |-> rangeselector_daily_growth]),
                                       "yaxis", [gridcolor |-> "#fff"])], TRUE),
                     err |-> NoError]
      [] f = "world_map" ->
           [ret |-> plot([data |-> <<scatter_mapbox(upstream.report)>>,
                          layout |-> Layout_world_map], FALSE),
            err |-> NoError]
      [] f = "usa_map" ->
           LET d == drop(upstream.counties, {AnomalousLabel})
           IN  IF d.raised THEN [ret |-> NoneValue, err |-> d.error]
               ELSE LET c == Choroplethmapbox(upstream.boundaries, Column(d.frame, "fips"),
                                              Column(d.frame, "cpc"), colorStopOk)
                    IN  IF c.raised THEN [ret |-> NoneValue, err |-> c.error]
                        ELSE [ret |-> NoneValue, err |-> NoError]

\* C9: every invocation ends, in any interleaving with the others and also
\* when the provider hands one table object to several invocations, with the
\* outcome (the markup returned or the error raised) it has when run alone.
C9_InvocationsIndependent ==
    \A t \in Threads :
      Finished(t) => [ret |-> ret[t], err |-> err[t]] = SoloOutcome(fn[t])

\* C10: when the table given to total_growth lacks one of the columns
\* Confirmed, Recovered and Deaths, the call ends with the missing-column
\* error (AttributeError naming a column the table lacks) and returns no
\* markup; no figure with a part of the three series is built.
C10_MissingColumnFails ==
    \A t \in Threads :
      (/\ fn[t] = "total_growth"
       /\ pc[t] \notin {"idle", "tg_22"}
       /\ ~(GrowthColumns \subseteq DOMAIN Built(t, "growth").cols))
      => /\ pc[t] # "done"
         /\ ret[t] = NoneValue
         /\ fig[t].data = <<>>
         /\ Finished(t)
              => /\ pc[t] = "raised"
                 /\ err[t].type = "AttributeError"
                 /\ err[t].arg \in GrowthColumns \ DOMAIN Built(t, "growth").cols

C10_Witness ==
    /\ fn[Main] = "total_growth"
    /\ pc[Main] = "raised"
    /\ DOMAIN Built(Main, "growth").cols = {"Confirmed", "Deaths"}
    /\ Len(Built(Main, "growth").index) = 2
    /\ err[Main].arg = "Recovered"
====
